---- MODULE Spec2Model ----
(***************************************************************************)
(* Sedai cost-optimization dashboard (src/app.py): the loader/normalizer   *)
(* load_data with its st.cache_data memo, the four multiselect filters,    *)
(* the headline KPIs and the per-sprint summary, as one script run per     *)
(* user interaction.                                                       *)
(*                                                                         *)
(* Cells are tagged records (NaN / number / string / date); pandas' NaN    *)
(* and NaT are both the cell NaN.  Floats produced by divisions are exact  *)
(* rationals plus inf, -inf and NaN.  The strings Python builds by         *)
(* formatting (FY, Quarter, FY_Quarter) are sequences of characters; the   *)
(* strings it only looks up or copies (month names, sprint names, cell     *)
(* text) are TLA+ strings.                                                 *)
(***************************************************************************)
EXTENDS Integers, Sequences, FiniteSets, TLC

(***************************************************************************)
(* Bounds of the model.                                                    *)
(***************************************************************************)
\* longest sheet (number of data rows) a file of the pools holds
MaxRows == 2
\* uploads per session
MaxUploads == 2
\* multiselect changes between two loads
MaxSelChanges == 2
\* midnights that pass during a session
MaxDays == 1

(***************************************************************************)
(* Cells.                                                                  *)
(***************************************************************************)
NaN == [t |-> "nan"]
Num(v) == [t |-> "num", v |-> v]
Str(s) == [t |-> "str", s |-> s]
FStr(cs) == [t |-> "fstr", c |-> cs]
Date(y, m, d) == [t |-> "date", y |-> y, m |-> m, d |-> d]

\* pd.isna on one cell
isna(c) == c.t = "nan"

\* Series.fillna(other), cell by cell
fillna(c, other) == IF isna(c) THEN other ELSE c

(***************************************************************************)
(* Strings built by formatting: sequences of characters.                   *)
(***************************************************************************)
DigitChar == <<"0", "1", "2", "3", "4", "5", "6", "7", "8", "9">>

\* str(n) of a non-negative int
RECURSIVE IntToStr(_)
IntToStr(n) ==
    IF n < 10 THEN <<DigitChar[n + 1]>>
    ELSE IntToStr(n \div 10) \o <<DigitChar[(n % 10) + 1]>>

\* code points of the characters the formatted labels use
CharCode(c) ==
    CASE c = " " -> 32
      [] c = "0" -> 48 [] c = "1" -> 49 [] c = "2" -> 50 [] c = "3" -> 51
      [] c = "4" -> 52 [] c = "5" -> 53 [] c = "6" -> 54 [] c = "7" -> 55
      [] c = "8" -> 56 [] c = "9" -> 57
      [] c = "F" -> 70 [] c = "Q" -> 81 [] c = "Y" -> 89

\* Python's < on two formatted strings
RECURSIVE LexLess(_, _)
LexLess(a, b) ==
    IF b = <<>> THEN FALSE
    ELSE IF a = <<>> THEN TRUE
    ELSE IF CharCode(Head(a)) # CharCode(Head(b))
         THEN CharCode(Head(a)) < CharCode(Head(b))
    ELSE LexLess(Tail(a), Tail(b))

\* Timestamp.month_name()
MonthNames ==
    <<"January", "February", "March", "April", "May", "June", "July",
      "August", "September", "October", "November", "December">>

\* the looked-up strings of the model in Python's string order
AlphaOrder ==
    <<"April", "August", "December", "February", "January", "July", "June",
      "March", "May", "November", "October", "S1", "S2", "S3", "September">>

StrRank(s) == CHOOSE i \in 1..Len(AlphaOrder) : AlphaOrder[i] = s

\* Python's < on two non-null values of one column
CellLess(a, b) ==
    CASE a.t = "num" -> a.v < b.v
      [] a.t = "str" -> StrRank(a.s) < StrRank(b.s)
      [] a.t = "fstr" -> LexLess(a.c, b.c)

(***************************************************************************)
(* The schema.                                                             *)
(***************************************************************************)
RequiredColumns ==
    <<"Sprint", "Start Date", "End Date", "Inference Type", "Region",
      "Cloud Provider", "Current Monthly Cost ($)", "Est. Monthly Cost ($)",
      "Cost Savings in $", "Cost Savings in %", "Achieved Savings",
      "Unachieveable Savings", "Delayed Savings", "Initiated">>

DateColumns == <<"Start Date", "End Date">>

NumericColumns ==
    <<"Current Monthly Cost ($)", "Est. Monthly Cost ($)", "Cost Savings in $",
      "Cost Savings in %", "Achieved Savings", "Unachieveable Savings",
      "Delayed Savings", "Initiated">>

DerivedColumns == {"Month", "Year", "FY", "Quarter", "FY_Quarter"}

Range(s) == {s[i] : i \in DOMAIN s}

(***************************************************************************)
(* Data frames: the column labels in order and the rows, each a function   *)
(* from the labels to cells.                                               *)
(***************************************************************************)
\* pd.DataFrame()
EmptyFrame == [cols |-> <<>>, rows |-> <<>>]

\* DataFrame.empty
empty(df) == Len(df.cols) = 0 \/ Len(df.rows) = 0

\* str.strip on the labels the sheets of the model carry
StripLabel(c) ==
    CASE c = " Sprint" -> "Sprint"
      [] c = "Start Date " -> "Start Date"
      [] c = " Cost Savings in $ " -> "Cost Savings in $"
      [] OTHER -> c

\* df.columns = [c.strip() for c in df.columns]
strip_columns(df) ==
    LET labels == {StripLabel(l) : l \in Range(df.cols)}
        old(c) == CHOOSE l \in Range(df.cols) : StripLabel(l) = c
    IN  [cols |-> [i \in DOMAIN df.cols |-> StripLabel(df.cols[i])],
         rows |-> [r \in DOMAIN df.rows |-> [c \in labels |-> df.rows[r][old(c)]]]]

\* for col in [...]: if col not in df.columns: df[col] = np.nan
ensure_columns(df) ==
    LET have == Range(df.cols)
        absent(c) == c \notin have
    IN  [cols |-> df.cols \o SelectSeq(RequiredColumns, absent),
         rows |-> [r \in DOMAIN df.rows |->
                    [c \in have \cup Range(RequiredColumns) |->
                        IF c \in have THEN df.rows[r][c] ELSE NaN]]]

\* the cell texts that parse as a date, and as a number
DateText == [s \in {"2024-05-01"} |-> Date(2024, 5, 1)]
NumText == [s \in {"12"} |-> 12]

\* pd.to_datetime(cell, errors='coerce'); a number counts nanoseconds from the epoch
to_datetime(c) ==
    CASE c.t = "date" -> c
      [] c.t = "str" -> IF c.s \in DOMAIN DateText THEN DateText[c.s] ELSE NaN
      [] c.t = "num" -> Date(1970, 1, 1)
      [] OTHER -> NaN

\* pd.to_numeric(cell, errors='coerce')
to_numeric(c) ==
    CASE c.t = "num" -> c
      [] c.t = "str" -> IF c.s \in DOMAIN NumText THEN Num(NumText[c.s]) ELSE NaN
      [] OTHER -> NaN

\* for c in ['Start Date','End Date']: df[c] = pd.to_datetime(df[c], errors='coerce')
parse_dates(df) ==
    [df EXCEPT !.rows = [r \in DOMAIN df.rows |->
        [c \in DOMAIN df.rows[r] |->
            IF c \in Range(DateColumns) THEN to_datetime(df.rows[r][c])
            ELSE df.rows[r][c]]]]

\* mutant: the fallback to today is dropped
when_without_today(row, today) == fillna(row["Start Date"], row["End Date"])

\* when = df['Start Date'].fillna(df['End Date']).fillna(today), one row
when(row, today) == fillna(fillna(row["Start Date"], row["End Date"]), today)

\* when.dt.month_name() and when.dt.year, one cell
month_name(dt) == IF isna(dt) THEN NaN ELSE Str(MonthNames[dt.m])
year(dt) == IF isna(dt) THEN NaN ELSE Num(dt.y)

\* mutant: April is counted in the closing fiscal year
fy_after_april(dt, today) ==
    LET d == IF isna(dt) THEN today ELSE dt
    IN  IF d.m > 4 THEN d.y + 1 ELSE d.y

\* mutant: the null check is inverted, so a dated row is labelled by today
fy_inverted_null_check(dt, today) ==
    LET d == IF ~isna(dt) THEN today ELSE dt
    IN  IF d.m >= 4 THEN d.y + 1 ELSE d.y

\* def fy(dt)
fy(dt, today) ==
    LET d == IF isna(dt) THEN today ELSE dt
    IN  IF d.m >= 4 THEN d.y + 1 ELSE d.y

\* def fq(dt)
fq(dt) ==
    IF ~isna(dt) /\ dt.m \in {4, 5, 6} THEN <<"Q", "1">>
    ELSE IF ~isna(dt) /\ dt.m \in {7, 8, 9} THEN <<"Q", "2">>
    ELSE IF ~isna(dt) /\ dt.m \in {10, 11, 12} THEN <<"Q", "3">>
    ELSE <<"Q", "4">>

\* f"FY{fy(d)}"
fy_label(dt, today) == <<"F", "Y">> \o IntToStr(fy(dt, today))

\* df['Month'] ... df['FY_Quarter'], one row
derive(row, today) ==
    LET w == when(row, today)
        FY == fy_label(w, today)
        Quarter == fq(w)
        new == [Month |-> month_name(w), Year |-> year(w), FY |-> FStr(FY),
                Quarter |-> FStr(Quarter),
                FY_Quarter |-> FStr(FY \o <<" ">> \o Quarter)]
    IN  [c \in DOMAIN row \cup DerivedColumns |->
            IF c \in DerivedColumns THEN new[c] ELSE row[c]]

derive_columns(df, today) ==
    [cols |-> df.cols \o <<"Month", "Year", "FY", "Quarter", "FY_Quarter">>,
     rows |-> [r \in DOMAIN df.rows |-> derive(df.rows[r], today)]]

\* for c in [...]: df[c] = pd.to_numeric(df[c], errors='coerce')
coerce_numeric(df) ==
    [df EXCEPT !.rows = [r \in DOMAIN df.rows |->
        [c \in DOMAIN df.rows[r] |->
            IF c \in Range(NumericColumns) THEN to_numeric(df.rows[r][c])
            ELSE df.rows[r][c]]]]

\* the body of load_data after the source is read
normalize(raw, today) ==
    coerce_numeric(derive_columns(parse_dates(ensure_columns(strip_columns(raw))), today))

(***************************************************************************)
(* Floats: the results of divisions are exact rationals n/d (d > 0, in     *)
(* lowest terms), or inf, -inf, NaN.                                       *)
(***************************************************************************)
Abs(x) == IF x < 0 THEN -x ELSE x

RECURSIVE Gcd(_, _)
Gcd(a, b) == IF b = 0 THEN a ELSE Gcd(b, a % b)

Rat(n, d) ==
    LET g == Gcd(Abs(n), Abs(d))
        sgn == IF d < 0 THEN -1 ELSE 1
    IN  [k |-> "rat", n |-> sgn * (n \div g), d |-> sgn * (d \div g)]
Inf == [k |-> "inf"]
NegInf == [k |-> "-inf"]
NaNf == [k |-> "nan"]

\* a / b on two float64 sums: division by zero gives inf, -inf or NaN
FDiv(a, b) ==
    IF b # 0 THEN Rat(a, b)
    ELSE IF a > 0 THEN Inf
    ELSE IF a < 0 THEN NegInf
    ELSE NaNf

\* x * 100
FTimes100(x) == IF x.k = "rat" THEN Rat(x.n * 100, x.d) ELSE x

\* Series.replace([np.inf, -np.inf], 0)
replace_inf(x) == IF x.k \in {"inf", "-inf"} THEN Rat(0, 1) ELSE x

\* Series.fillna(0) on a float
fillna0(x) == IF x.k = "nan" THEN Rat(0, 1) ELSE x

(***************************************************************************)
(* Column reductions over a sequence of rows.                              *)
(***************************************************************************)
\* Series.sum(): NaN skipped, 0 for no values
RECURSIVE sum(_, _)
sum(rows, col) ==
    IF rows = <<>> THEN 0
    ELSE (IF isna(Head(rows)[col]) THEN 0 ELSE Head(rows)[col].v) + sum(Tail(rows), col)

\* Series.count(): the non-null values
RECURSIVE count(_, _)
count(rows, col) ==
    IF rows = <<>> THEN 0
    ELSE (IF isna(Head(rows)[col]) THEN 0 ELSE 1) + count(Tail(rows), col)

\* Series.mean(): NaN skipped, NaN for no values
mean(rows, col) ==
    IF count(rows, col) = 0 THEN NaNf ELSE Rat(sum(rows, col), count(rows, col))

\* (s > 0).sum()
RECURSIVE count_positive(_, _)
count_positive(rows, col) ==
    IF rows = <<>> THEN 0
    ELSE (IF ~isna(Head(rows)[col]) /\ Head(rows)[col].v > 0 THEN 1 ELSE 0)
         + count_positive(Tail(rows), col)

\* mutant: "if cur:" without "cur > 0", so a negative cost sum divides
weighted_savings_pct_any_cost(rows) ==
    LET cur == sum(rows, "Current Monthly Cost ($)")
        sav == sum(rows, "Cost Savings in $")
    IN  IF cur # 0 THEN FTimes100(FDiv(sav, cur))
        ELSE IF ~(\A i \in DOMAIN rows : isna(rows[i]["Cost Savings in %"]))
             THEN mean(rows, "Cost Savings in %")
        ELSE Rat(0, 1)

\* mutant: the fallback returns the mean without the all-null guard
weighted_savings_pct_bare_mean(rows) ==
    LET cur == sum(rows, "Current Monthly Cost ($)")
        sav == sum(rows, "Cost Savings in $")
    IN  IF cur # 0 /\ cur > 0 THEN FTimes100(FDiv(sav, cur))
        ELSE mean(rows, "Cost Savings in %")

\* def weighted_savings_pct(df)
weighted_savings_pct(rows) ==
    LET cur == sum(rows, "Current Monthly Cost ($)")
        sav == sum(rows, "Cost Savings in $")
    IN  IF cur # 0 /\ cur > 0 THEN FTimes100(FDiv(sav, cur))
        ELSE IF ~(\A i \in DOMAIN rows : isna(rows[i]["Cost Savings in %"]))
             THEN mean(rows, "Cost Savings in %")
        ELSE Rat(0, 1)

(***************************************************************************)
(* Filters.                                                                *)
(***************************************************************************)
\* the four multiselects: the widget label's column
Dims == <<"Month", "Year", "FY", "Sprint">>

\* sorted(S) under Python's <
RECURSIVE sorted(_)
sorted(S) ==
    IF S = {} THEN <<>>
    ELSE LET least == CHOOSE x \in S : \A y \in S \ {x} : CellLess(x, y)
         IN  <<least>> \o sorted(S \ {least})

\* opts = sorted([v for v in pd.Series(values).dropna().unique()])
multi_filter_opts(rows, col) ==
    sorted({rows[i][col] : i \in {j \in DOMAIN rows : ~isna(rows[j][col])}})

\* Series.isin(sel), one cell
isin(c, selected) == c \in selected

\* mutant: a row without a Sprint passes the Sprint filter
mask_null_sprint_passes(row, selected) ==
    /\ isin(row["Month"], selected["Month"])
    /\ isin(row["Year"], selected["Year"])
    /\ isin(row["FY"], selected["FY"])
    /\ (isna(row["Sprint"]) \/ isin(row["Sprint"], selected["Sprint"]))

\* mask = df['Month'].isin(sel_month) & ... & df['Sprint'].isin(sel_sprint)
mask(row, selected) ==
    /\ isin(row["Month"], selected["Month"])
    /\ isin(row["Year"], selected["Year"])
    /\ isin(row["FY"], selected["FY"])
    /\ isin(row["Sprint"], selected["Sprint"])

\* flt = df[mask].copy()
filter(df, selected) ==
    LET keep(row) == mask(row, selected)
    IN  [cols |-> df.cols, rows |-> SelectSeq(df.rows, keep)]

(***************************************************************************)
(* KPIs and the sprint summary.                                            *)
(***************************************************************************)
\* the four st.metric values, before formatting
compute_kpis(flt) ==
    [count |-> Len(flt.rows),
     total_savings |-> sum(flt.rows, "Cost Savings in $"),
     weighted |-> weighted_savings_pct(flt.rows),
     avg |-> mean(flt.rows, "Cost Savings in $")]

\* the value of the KPIs on a page that stopped before them
NoKpis == [count |-> 0, total_savings |-> 0, weighted |-> NaNf, avg |-> NaNf]

\* mutant: the infinities are not replaced
total_savings_pct_keeps_inf(sav, cur) == FTimes100(fillna0(FDiv(sav, cur)))

\* summary['Total_Savings_%'] for one group
total_savings_pct(sav, cur) == FTimes100(fillna0(replace_inf(FDiv(sav, cur))))

\* flt.groupby('Sprint', dropna=False).agg(...) and the Total_Savings_% column:
\* one record per distinct Sprint cell, the NaN group included
sprint_summary(flt) ==
    LET keys == {flt.rows[i]["Sprint"] : i \in DOMAIN flt.rows}
        grp(key) == LET member(row) == row["Sprint"] = key IN SelectSeq(flt.rows, member)
    IN  [key \in keys |->
            LET g == grp(key)
                cur == sum(g, "Current Monthly Cost ($)")
                sav == sum(g, "Cost Savings in $")
            IN  [Total_Recommendations |-> count(g, "Sprint"),
                 Current_Spend_USD |-> cur,
                 Est_Spend_USD |-> sum(g, "Est. Monthly Cost ($)"),
                 Total_Savings_USD |-> sav,
                 Achieved_USD |-> sum(g, "Achieved Savings"),
                 Unachievable_USD |-> sum(g, "Unachieveable Savings"),
                 Delayed_USD |-> sum(g, "Delayed Savings"),
                 Initiated_USD |-> sum(g, "Initiated"),
                 Achieved_Count |-> count_positive(g, "Achieved Savings"),
                 Unachievable_Count |-> count_positive(g, "Unachieveable Savings"),
                 Delayed_Count |-> count_positive(g, "Delayed Savings"),
                 Initiated_Count |-> count_positive(g, "Initiated"),
                 Total_Savings_Pct |-> total_savings_pct(sav, cur)]]

(***************************************************************************)
(* The session: the process-wide st.cache_data memo of load_data, the      *)
(* uploader widget, the file at the default path, the clock, and what the  *)
(* last script run put on the page.                                        *)
(***************************************************************************)
VARIABLES
    today,       \* pd.Timestamp.today().normalize()
    days,        \* midnights passed
    disk,        \* the sheet at the default path, or NoFile
    upload,      \* the file_uploader's value: a file, or NoUpload
    uploads,     \* files uploaded so far
    cache,       \* st.cache_data: load_data's results by argument
    phase,       \* "start", then "halted" (st.stop) or "rendered" after a run
    fresh,       \* the page on screen was run against the present files and day
    warned,      \* the st.warning advisory is on the page
    df,          \* df = load_data(upload)
    opts,        \* the options of the four multiselects
    sel,         \* their values: sel_month, sel_year, sel_fy, sel_sprint
    selChanges,  \* multiselect changes so far
    flt,         \* flt = df[mask].copy()
    kpis,        \* the four metrics
    summary      \* the sprint summary table

vars ==
    <<today, days, disk, upload, uploads, cache, phase, fresh, warned, df, opts,
      sel, selChanges, flt, kpis, summary>>

NoFile == [missing |-> TRUE]
NoUpload == [name |-> "None"]
File(name, sheet) == [name |-> name, sheet |-> sheet]

DimSet == Range(Dims)
NoOpts == [d \in DimSet |-> <<>>]
NoSel == [d \in DimSet |-> {}]

\* def load_data(uploaded, default_path): the frame, and whether st.warning was called
load_data(uploaded, file, now) ==
    IF uploaded # NoUpload THEN [df |-> normalize(uploaded.sheet, now), warned |-> FALSE]
    ELSE IF file # NoFile THEN [df |-> normalize(file, now), warned |-> FALSE]
    ELSE [df |-> EmptyFrame, warned |-> TRUE]

\* @st.cache_data: the memo is keyed by the argument (None, or the uploaded
\* file's name and bytes); a hit returns the stored frame and replays the
\* stored st.warning, a miss runs the body and stores both
cached_load_data(uploaded, memo, file, now) ==
    IF uploaded \in DOMAIN memo THEN memo[uploaded]
    ELSE load_data(uploaded, file, now)

\* mutant: cascading filters, the options of one multiselect are read from the
\* rows the other three selections keep
filter_values_cascading(frame, d, selected) ==
    LET keep(row) == \A e \in DimSet \ {d} : phase = "rendered" => row[e] \in selected[e]
    IN  SelectSeq(frame.rows, keep)

\* multi_filter("Month", df['Month']) ...: the values a multiselect's options are
\* read from are the column of the loaded frame, whatever is selected
filter_values(frame, d, selected) == frame.rows

\* st.sidebar.multiselect(label, options=opts, default=opts): a widget that was on
\* the last page with the same options keeps its value, any other starts at default
multiselect(d, newopts, wanted) ==
    IF phase = "rendered" /\ opts[d] = newopts THEN wanted[d] ELSE Range(newopts)

\* one run of the script with the uploader holding `up` and the multiselects
\* asked for `wanted`
Run(up, wanted) ==
    \E res \in {cached_load_data(up, cache, disk, today)} :
    \E newopts \in {[d \in DimSet |->
                        multi_filter_opts(filter_values(res.df, d, wanted), d)]} :
    \E newsel \in {[d \in DimSet |-> multiselect(d, newopts[d], wanted)]} :
    \E view \in {filter(res.df, newsel)} :
        /\ cache' = IF up \in DOMAIN cache THEN cache ELSE cache @@ (up :> res)
        /\ df' = res.df
        /\ warned' = res.warned
        /\ fresh' = TRUE
        /\ IF empty(res.df)
           THEN /\ phase' = "halted"
                /\ opts' = NoOpts
                /\ sel' = NoSel
                /\ flt' = EmptyFrame
                /\ kpis' = NoKpis
                /\ summary' = <<>>
           ELSE /\ phase' = "rendered"
                /\ opts' = newopts
                /\ sel' = newsel
                /\ flt' = view
                /\ kpis' = compute_kpis(view)
                /\ summary' = sprint_summary(view)

\* the user opens or reloads the page
Refresh ==
    /\ Run(upload, sel)
    /\ UNCHANGED <<today, days, disk, upload, uploads, selChanges>>

\* the user uploads a file
Upload(f) ==
    /\ uploads < MaxUploads
    /\ f # upload
    /\ upload' = f
    /\ uploads' = uploads + 1
    /\ Run(f, sel)
    /\ UNCHANGED <<today, days, disk, selChanges>>

\* the user removes the uploaded file
ClearUpload ==
    /\ upload # NoUpload
    /\ upload' = NoUpload
    /\ Run(NoUpload, sel)
    /\ UNCHANGED <<today, days, disk, uploads, selChanges>>

\* the user adds or removes one option of one multiselect
Select(d, v) ==
    /\ phase = "rendered"
    /\ selChanges < MaxSelChanges
    /\ v \in Range(opts[d])
    /\ selChanges' = selChanges + 1
    /\ Run(upload, [sel EXCEPT ![d] = IF v \in @ THEN @ \ {v} ELSE @ \cup {v}])
    /\ UNCHANGED <<today, days, disk, upload, uploads>>

\* a file appears at, or is replaced at, the default path
PutDefault(sheet) ==
    /\ disk # sheet
    /\ disk' = sheet
    /\ fresh' = FALSE
    /\ UNCHANGED <<today, days, upload, uploads, cache, phase, warned, df, opts, sel,
                   selChanges, flt, kpis, summary>>

\* the file at the default path is removed
RemoveDefault ==
    /\ disk # NoFile
    /\ disk' = NoFile
    /\ fresh' = FALSE
    /\ UNCHANGED <<today, days, upload, uploads, cache, phase, warned, df, opts, sel,
                   selChanges, flt, kpis, summary>>

\* the calendar
DaysInMonth(y, m) ==
    IF m = 2 THEN (IF y % 4 = 0 /\ (y % 100 # 0 \/ y % 400 = 0) THEN 29 ELSE 28)
    ELSE IF m \in {4, 6, 9, 11} THEN 30
    ELSE 31

next_day(dt) ==
    IF dt.d < DaysInMonth(dt.y, dt.m) THEN Date(dt.y, dt.m, dt.d + 1)
    ELSE IF dt.m < 12 THEN Date(dt.y, dt.m + 1, 1)
    ELSE Date(dt.y + 1, 1, 1)

\* midnight passes
Midnight ==
    /\ days < MaxDays
    /\ days' = days + 1
    /\ today' = next_day(today)
    /\ fresh' = FALSE
    /\ UNCHANGED <<disk, upload, uploads, cache, phase, warned, df, opts, sel,
                   selChanges, flt, kpis, summary>>

(***************************************************************************)
(* The inputs: sheets a user can upload or keep at the default path.       *)
(***************************************************************************)
\* one spreadsheet row under the fourteen required labels
MkRow(sprint, start, end, cur, sav, pct) ==
    [c \in Range(RequiredColumns) |->
        CASE c = "Sprint" -> sprint
          [] c = "Start Date" -> start
          [] c = "End Date" -> end
          [] c = "Inference Type" -> Str("Rightsizing")
          [] c = "Cloud Provider" -> Str("AWS")
          [] c = "Current Monthly Cost ($)" -> cur
          [] c = "Est. Monthly Cost ($)" ->
                IF cur.t = "num" /\ sav.t = "num" THEN Num(cur.v - sav.v) ELSE NaN
          [] c = "Cost Savings in $" -> sav
          [] c = "Cost Savings in %" -> pct
          [] c = "Achieved Savings" -> IF sav.t = "num" /\ sav.v > 0 THEN sav ELSE NaN
          [] c = "Unachieveable Savings" -> IF sav.t = "num" /\ sav.v < 0 THEN Num(0 - sav.v) ELSE NaN
          [] OTHER -> NaN]

\* the sheet with the given header row: a label that strips to a required one
\* carries that column of the rows, any other label a note
Sheet(labels, rows) ==
    [cols |-> labels,
     rows |-> [r \in DOMAIN rows |->
        [l \in Range(labels) |->
            IF StripLabel(l) \in Range(RequiredColumns) THEN rows[r][StripLabel(l)]
            ELSE Str("note")]]]

SeqUpTo(S, n) == UNION {[1..k -> S] : k \in 0..n}

\* the days a session starts on: a fiscal-year end, a calendar-year end, mid-month
StartDays == {Date(2024, 3, 31), Date(2024, 12, 31), Date(2024, 6, 14)}

\* sheets of a whole session: one with a row that has no date and a row dated
\* by Start Date with no Sprint, one with a row dated by End Date only
SessionSheets ==
    {Sheet(RequiredColumns,
           <<MkRow(Str("S1"), NaN, Str("n/a"), Num(1000), Num(200), Num(20)),
             MkRow(NaN, Date(2024, 5, 1), NaN, Num(500), Num(0), NaN)>>),
     Sheet(RequiredColumns,
           <<MkRow(Str("S2"), NaN, Date(2025, 2, 10), NaN, Num(50), Num(10))>>)}

FileNames == {"a.xlsx", "b.xlsx"}

SessionFiles == {File(n, s) : n \in FileNames, s \in SessionSheets}

\* sheets for the filters and the aggregates: sprints with and without a name,
\* costs present, zero, negative and missing, savings of either sign
ViewRows ==
    {MkRow(Str("S1"), Date(2024, 5, 1), NaN, Num(1000), Num(200), Num(20)),
     MkRow(Str("S1"), Date(2024, 6, 15), NaN, Num(500), Num(0), NaN),
     MkRow(Str("S2"), Date(2024, 5, 1), NaN, NaN, Num(200), Num(10)),
     MkRow(Str("S2"), NaN, Date(2024, 2, 10), Num(0), Num(-100), Num(20)),
     MkRow(NaN, Date(2024, 6, 15), NaN, Num(0), Num(0), NaN),
     MkRow(Str("S1"), Date(2024, 5, 1), NaN, Num(-2000), Num(200), Num(10)),
     MkRow(NaN, Date(2024, 5, 1), NaN, Num(1000), NaN, Num(10)),
     MkRow(Str("S2"), Date(2024, 6, 15), NaN, NaN, NaN, NaN)}

ViewSheets == {Sheet(RequiredColumns, rows) : rows \in SeqUpTo(ViewRows, MaxRows) \ {<<>>}}

\* sheets for the loader: every month of two years as Start Date, and text and
\* empty cells; four End Date cells; header rows with columns missing, padded, extra
LoadStartCells ==
    {NaN, Str("n/a"), Str("2024-05-01")}
        \cup {Date(y, m, 15) : y \in {2024, 2025}, m \in 1..12}

LoadEndCells == {NaN, Str("n/a"), Date(2023, 12, 31), Date(2025, 3, 1)}

LoadHeaders ==
    {RequiredColumns,
     <<"Sprint", "Cost Savings in $">>,
     <<" Sprint", "Start Date ", "End Date", " Cost Savings in $ ">>,
     <<"End Date", "Current Monthly Cost ($)", "Cost Savings in %", "Notes">>,
     <<"Notes">>}

LoadMoreRows ==
    {MkRow(NaN, NaN, NaN, Str("n/a"), Str("12"), NaN),
     MkRow(Str("S3"), Str("n/a"), Date(2024, 10, 2), Num(10), Num(1), Num(10))}

LoadSheets ==
    {Sheet(h, <<MkRow(Str("S1"), st, en, Num(1000), Num(200), Num(20))>> \o more) :
        h \in LoadHeaders, st \in LoadStartCells, en \in LoadEndCells,
        more \in SeqUpTo(LoadMoreRows, MaxRows - 1)}
        \cup {Sheet(h, <<>>) : h \in LoadHeaders}

(***************************************************************************)
(* Specifications.  The server has started and no script run has happened. *)
(***************************************************************************)
Started(files) ==
    /\ today \in StartDays
    /\ days = 0
    /\ disk \in files
    /\ upload = NoUpload
    /\ uploads = 0
    /\ cache = <<>>
    /\ phase = "start"
    /\ fresh = FALSE
    /\ warned = FALSE
    /\ df = EmptyFrame
    /\ opts = NoOpts
    /\ sel = NoSel
    /\ selChanges = 0
    /\ flt = EmptyFrame
    /\ kpis = NoKpis
    /\ summary = <<>>

\* a whole session: uploads, the default file coming and going, days passing
Init == Started({NoFile} \cup SessionSheets)

Next ==
    \/ Refresh
    \/ \E f \in SessionFiles : Upload(f)
    \/ ClearUpload
    \/ \E s \in SessionSheets : PutDefault(s)
    \/ RemoveDefault
    \/ Midnight

Spec == Init /\ [][Next]_vars

\* one load, then filter changes
InitView == Started(ViewSheets)

NextView ==
    \/ Refresh
    \/ \E d \in DimSet : \E v \in Range(opts[d]) : Select(d, v)

SpecView == InitView /\ [][NextView]_vars

\* one load of one sheet
InitLoad == Started(LoadSheets)

NextLoad == Refresh

SpecLoad == InitLoad /\ [][NextLoad]_vars

(***************************************************************************)
(* Properties.  Their arithmetic is stated on the cells directly: a total  *)
(* by index, a ratio by cross-multiplication.                              *)
(***************************************************************************)
RECURSIVE TotalTo(_, _, _)
TotalTo(rows, col, k) ==
    IF k = 0 THEN 0
    ELSE TotalTo(rows, col, k - 1) + (IF rows[k][col] = NaN THEN 0 ELSE rows[k][col].v)

Total(rows, col) == TotalTo(rows, col, Len(rows))

NonNull(rows, col) == {i \in DOMAIN rows : rows[i][col] # NaN}

\* x is the number num / den
IsRatio(x, num, den) == x.k = "rat" /\ x.d > 0 /\ x.n * den = num * x.d

IsZero(x) == x.k = "rat" /\ x.n = 0

FullSelection == \A d \in DimSet : sel[d] = Range(opts[d])

\* C1: with every dimension's selection equal to its full option set, the
\* filtered view is the loaded table: the same rows in the same order.
C1_FullSelectionKeepsAllRows ==
    (phase = "rendered" /\ FullSelection) => flt = df

\* C2: the headline percentage is 100 * sum(savings) / sum(current cost) when the
\* cost sum is strictly positive; otherwise the mean of the non-null Cost Savings
\* in % values, and 0 when there is none.
C2_WeightedSavingsPct ==
    phase = "rendered" =>
        LET cur == Total(flt.rows, "Current Monthly Cost ($)")
            sav == Total(flt.rows, "Cost Savings in $")
            some == NonNull(flt.rows, "Cost Savings in %")
        IN  /\ cur > 0 => IsRatio(kpis.weighted, 100 * sav, cur)
            /\ (cur <= 0 /\ some # {}) =>
                    IsRatio(kpis.weighted, Total(flt.rows, "Cost Savings in %"),
                            Cardinality(some))
            /\ (cur <= 0 /\ some = {}) => IsZero(kpis.weighted)

\* costs all null or zero and percents 10 and 20: the headline percentage is 15
C2_Witness ==
    /\ phase = "rendered"
    /\ Len(flt.rows) = 2
    /\ \A i \in DOMAIN flt.rows :
          flt.rows[i]["Current Monthly Cost ($)"] \in {NaN, Num(0)}
    /\ {flt.rows[i]["Cost Savings in %"] : i \in DOMAIN flt.rows} = {Num(10), Num(20)}
    /\ kpis.weighted = [k |-> "rat", n |-> 15, d |-> 1]

\* the effective date of a loaded row, read off its parsed date cells
EffectiveDate(row) ==
    IF row["Start Date"] # NaN THEN row["Start Date"]
    ELSE IF row["End Date"] # NaN THEN row["End Date"]
    ELSE today

\* 'FY' followed by the four digits of y
FYLabel(y) ==
    <<"F", "Y", DigitChar[(y \div 1000) + 1], DigitChar[((y \div 100) % 10) + 1],
      DigitChar[((y \div 10) % 10) + 1], DigitChar[(y % 10) + 1]>>

\* C3: for the effective date d of every loaded row: January to March give
\* Quarter Q4 and FY 'FY' + year(d); April to December give FY 'FY' + (year(d) + 1)
\* and Quarter Q1 (Apr-Jun), Q2 (Jul-Sep), Q3 (Oct-Dec); FY_Quarter is FY, one
\* space, Quarter.
C3_FiscalCalendar ==
    phase = "rendered" =>
        \A i \in DOMAIN df.rows :
            LET r == df.rows[i]
                d == EffectiveDate(r)
            IN  /\ d.m \in 1..3 =>
                      /\ r["Quarter"] = FStr(<<"Q", "4">>)
                      /\ r["FY"] = FStr(FYLabel(d.y))
                /\ d.m \in 4..12 =>
                      /\ r["FY"] = FStr(FYLabel(d.y + 1))
                      /\ r["Quarter"] =
                            FStr(<<"Q", IF d.m <= 6 THEN "1"
                                        ELSE IF d.m <= 9 THEN "2" ELSE "3">>)
                /\ r["FY_Quarter"] = FStr(r["FY"].c \o <<" ">> \o r["Quarter"].c)

\* a row dated 2024-05-15 is labelled FY2025 Q1
C3_Witness ==
    /\ phase = "rendered"
    /\ \E i \in DOMAIN df.rows :
          /\ df.rows[i]["Start Date"] = Date(2024, 5, 15)
          /\ df.rows[i]["FY_Quarter"] =
                FStr(<<"F", "Y", "2", "0", "2", "5", " ", "Q", "1">>)

NoSource == upload = NoUpload /\ disk = NoFile

\* C4: a run with neither an uploaded file nor a file at the default path stops
\* with the advisory and an empty table, and a run with a source proceeds to the
\* filters and aggregates.
C4_HaltedExactlyWithoutSource ==
    fresh =>
        /\ NoSource => (phase = "halted" /\ warned /\ empty(df))
        /\ ~NoSource => phase = "rendered"

\* C5: a view with zero rows gives count 0, total savings 0, percentage 0 and
\* no value for the average.
C5_EmptyViewKpis ==
    (phase = "rendered" /\ Len(flt.rows) = 0) =>
        /\ kpis.count = 0
        /\ kpis.total_savings = 0
        /\ IsZero(kpis.weighted)
        /\ kpis.avg = NaNf

\* every option of some dimension deselected, on a loaded table with rows
C5_Witness ==
    /\ phase = "rendered"
    /\ Len(df.rows) > 0
    /\ Len(flt.rows) = 0
    /\ \E d \in DimSet : sel[d] = {} /\ opts[d] # <<>>

\* C6: each sprint group's Total_Savings_% is 100 * Total_Savings_USD /
\* Current_Spend_USD when the group's current spend is non-zero, and 0 when it is
\* zero or every current-cost cell of the group is missing.
C6_SprintSavingsPct ==
    phase = "rendered" =>
        \A key \in DOMAIN summary :
            LET g == summary[key]
                members == {i \in DOMAIN flt.rows : flt.rows[i]["Sprint"] = key}
                missing == \A i \in members :
                              flt.rows[i]["Current Monthly Cost ($)"] = NaN
            IN  /\ g.Current_Spend_USD # 0 =>
                      IsRatio(g.Total_Savings_Pct, 100 * g.Total_Savings_USD,
                              g.Current_Spend_USD)
                /\ (g.Current_Spend_USD = 0 \/ missing) => IsZero(g.Total_Savings_Pct)

\* a group with savings, all of whose current-cost cells are missing
C6_Witness ==
    /\ phase = "rendered"
    /\ \E key \in DOMAIN summary :
          /\ summary[key].Current_Spend_USD = 0
          /\ summary[key].Total_Savings_USD > 0
          /\ IsZero(summary[key].Total_Savings_Pct)

\* the cell of the sheet under the label that strips to col, NaN without one
RawCell(sheet, i, col) ==
    IF \E l \in Range(sheet.cols) : StripLabel(l) = col
    THEN sheet.rows[i][CHOOSE l \in Range(sheet.cols) : StripLabel(l) = col]
    ELSE NaN

\* C7: after a load of a sheet with rows, every row has the fourteen required and
\* the five derived columns; a date cell that holds a date is kept, one that is
\* missing or unparsable is null; Month and Year are those of Start Date, else of
\* End Date, else of today, and no derived column is null.
C7_LoadedSchema ==
    (phase # "start" /\ Len(disk.rows) > 0) =>
        /\ phase = "rendered"
        /\ Len(df.rows) = Len(disk.rows)
        /\ Range(RequiredColumns) \cup DerivedColumns \subseteq Range(df.cols)
        /\ \A i \in DOMAIN df.rows :
              LET r == df.rows[i]
                  d == EffectiveDate(r)
              IN  /\ DOMAIN r = Range(df.cols)
                  /\ \A c \in Range(DateColumns) :
                        LET raw == RawCell(disk, i, c)
                        IN  /\ raw.t = "date" => r[c] = raw
                            /\ raw \in {NaN, Str("n/a")} => r[c] = NaN
                  /\ r["Month"] = Str(MonthNames[d.m])
                  /\ r["Year"] = Num(d.y)
                  /\ \A c \in DerivedColumns : r[c] # NaN

\* a sheet without a Start Date column and a row with no usable End Date: the
\* row is dated today
C7_Witness ==
    /\ phase = "rendered"
    /\ "Start Date" \notin {StripLabel(l) : l \in Range(disk.cols)}
    /\ \E i \in DOMAIN df.rows :
          /\ df.rows[i]["Start Date"] = NaN
          /\ df.rows[i]["End Date"] = NaN
          /\ df.rows[i]["Month"] = Str(MonthNames[today.m])
          /\ df.rows[i]["Year"] = Num(today.y)

\* o lists, in ascending order and once each, the non-null values of column d
OptionsOf(frame, d, o) ==
    /\ Range(o) = {frame.rows[i][d] : i \in DOMAIN frame.rows} \ {NaN}
    /\ \A i, j \in DOMAIN o : i < j => CellLess(o[i], o[j])

\* C8: a filter change leaves the loaded table as it was, and every dimension's
\* options stay the sorted distinct non-null values of the whole table, whatever
\* is selected.
C8_FiltersDoNotCascade ==
    [][phase = "rendered" =>
          /\ df' = df
          /\ \A d \in DimSet : OptionsOf(df, d, opts'[d])]_vars

\* a narrowed selection on a table of several rows
C8_Witness ==
    /\ phase = "rendered"
    /\ selChanges > 0
    /\ Len(df.rows) > Len(flt.rows)
    /\ \E d \in DimSet : sel[d] # Range(opts[d]) /\ sel[d] # {}
    /\ \A d \in DimSet : OptionsOf(df, d, opts[d])

\* two memo entries for uploads of the same bytes
SameBytes(k1, k2) == k1 # NoUpload /\ k2 # NoUpload /\ k1.sheet = k2.sheet

Dated(row) == row["Start Date"] # NaN \/ row["End Date"] # NaN

\* C9: two loads of the same file content return identical tables, source and
\* derived columns alike, whatever the day of each.
C9_SameSourceSameTable ==
    \A k1, k2 \in DOMAIN cache :
        SameBytes(k1, k2) => cache[k1].df = cache[k2].df

\* C9 (amended): two loads of the same file content return tables with the same
\* columns and rows, equal in every source column, and equal in every derived
\* column on each row whose Start Date or End Date parsed.
C9_SameSourceSameDatedRows ==
    \A k1, k2 \in DOMAIN cache :
        SameBytes(k1, k2) =>
            LET a == cache[k1].df
                b == cache[k2].df
            IN  /\ a.cols = b.cols
                /\ Len(a.rows) = Len(b.rows)
                /\ \A i \in DOMAIN a.rows :
                      /\ \A c \in Range(a.cols) \ DerivedColumns :
                            a.rows[i][c] = b.rows[i][c]
                      /\ Dated(a.rows[i]) =>
                            \A c \in DerivedColumns : a.rows[i][c] = b.rows[i][c]

\* the same bytes loaded on two days under two names: the tables differ on the
\* undated row and agree on the dated one
C9_Witness ==
    \E k1, k2 \in DOMAIN cache :
        /\ SameBytes(k1, k2)
        /\ k1.name # k2.name
        /\ cache[k1].df # cache[k2].df
        /\ \E i \in DOMAIN cache[k1].df.rows : Dated(cache[k1].df.rows[i])

RECURSIVE SumOver(_, _)
SumOver(S, f) ==
    IF S = {} THEN 0
    ELSE LET x == CHOOSE y \in S : TRUE IN f[x] + SumOver(S \ {x}, f)

\* C10: the sprint summary's Total_Recommendations add up to the headline row
\* count and its Total_Savings_USD to the headline total savings.
C10_SummaryAddsUp ==
    phase = "rendered" =>
        LET recs == [key \in DOMAIN summary |-> summary[key].Total_Recommendations]
            savings == [key \in DOMAIN summary |-> summary[key].Total_Savings_USD]
        IN  /\ SumOver(DOMAIN summary, recs) = kpis.count
            /\ SumOver(DOMAIN summary, savings) = kpis.total_savings

\* a view with rows, of a table that also holds a row without a Sprint
C10_Witness ==
    /\ phase = "rendered"
    /\ \E i \in DOMAIN df.rows : df.rows[i]["Sprint"] = NaN
    /\ kpis.count > 0
    /\ kpis.total_savings # 0

====
